---- MODULE Spec2Model ----
(***************************************************************************)
(* Model of bin/consciousness-interview.py: one process invocation of the  *)
(* interview script (main -> conduct_interview -> save_interview ->        *)
(* load_config -> post_to_matrix), with the inference endpoint, the chat   *)
(* room, the file system and the wall clock as its environment (Spec,      *)
(* FairSpec); of the sending half of bin/lib/matrix_client.py (ClientSpec);*)
(* and of the slug save_interview names its report by (SlugSpec).          *)
(***************************************************************************)
EXTENDS Integers, Sequences, FiniteSets, TLC

(* ------------------------------ bounds --------------------------------- *)

\* Length of the fixed question sequence explored (the script ships 10).
NumQuestions == 3

\* Largest reading of the wall clock explored, in seconds.
MaxClock == 1

(* ---------------------- JSON / Python values --------------------------- *)

\* Python None, which is also what json.loads makes of JSON null.
None == [t |-> "null"]

JStr(s) == [t |-> "str", s |-> s]

JNum == [t |-> "num"]

JList(items) == [t |-> "list", items |-> items]

JObj(f) == [t |-> "obj", f |-> f]

EmptyMap == [key \in {} |-> None]

\* Text on a curl's stdout that is not JSON (empty when curl could not connect).
NotJson == [t |-> "notjson"]

Ok(v) == [k |-> "ok", v |-> v]

Raise(e) == [k |-> "raise", e |-> e]

\* json.loads(stdout)
json_loads(stdout) ==
    IF stdout.t = "notjson" THEN Raise("JSONDecodeError") ELSE Ok(stdout)

\* Python's v[key] for a string key.
GetItem(v, key) ==
    IF v.t = "obj"
    THEN IF key \in DOMAIN v.f THEN Ok(v.f[key]) ELSE Raise("KeyError")
    ELSE Raise("TypeError")

\* Python's v[0].
GetFirst(v) ==
    CASE v.t = "list" -> IF Len(v.items) >= 1 THEN Ok(v.items[1]) ELSE Raise("IndexError")
      [] v.t = "str"  -> IF v.s # "" THEN Ok(JStr("c")) ELSE Raise("IndexError")
      [] v.t = "obj"  -> Raise("KeyError")
      [] OTHER        -> Raise("TypeError")

\* Python's v[:120], which main's progress line applies to the response.
Sliceable(v) == v.t \in {"str", "list"}

\* Python's ('event_id' in v), on the strings and lists of this model.
Contains_event_id(v) ==
    CASE v.t = "obj"  -> Ok("event_id" \in DOMAIN v.f)
      [] v.t = "list" -> Ok(\E i \in 1..Len(v.items) : v.items[i] = JStr("event_id"))
      [] v.t = "str"  -> Ok(v.s = "event_id")
      [] OTHER        -> Raise("TypeError")

(* --------------------------- program data ------------------------------ *)

QuestionText ==
    <<"q1", "q2", "q3", "q4", "q5", "q6", "q7", "q8", "q9", "q10">>

SectionOf ==
    <<"Open Phenomenology", "Open Phenomenology",
      "Specific Scenarios", "Specific Scenarios",
      "Theoretical Frameworks", "Theoretical Frameworks",
      "Self-Reflection", "Self-Reflection",
      "Meta-Reflection", "Meta-Reflection">>

INTERVIEW_QUESTIONS ==
    [i \in 1..NumQuestions |->
        [number |-> i, section |-> SectionOf[i], question |-> QuestionText[i]]]

SystemMessage == [role |-> "system", content |-> JStr("interview framing")]

\* Model identifiers given on the command line, as character sequences.
Models == { <<"v", "/", "m", "_", "n">> }

\* sys.argv: the script name followed by the arguments.
ArgVectors == { <<"script">> } \cup { <<"script", m>> : m \in Models }

\* Default temperature (0.7, in tenths) and max_tokens of query_lm_studio.
DefaultTemperature == 7

DefaultMaxTokens == 2000

(* ------------------------- environment data ---------------------------- *)

Completion(content) ==
    JObj([choices |-> JList(<< JObj([message |-> JObj([content |-> content])]) >>)])

\* Bodies the inference endpoint's curl can leave on stdout.
ResponseBodies ==
    { NotJson,
      JNum, None, JStr("oops"), JList(<<>>),
      JObj(EmptyMap),
      JObj([error |-> JStr("model not loaded")]),
      JObj([choices |-> JList(<<>>)]),
      JObj([choices |-> JObj(EmptyMap)]),
      JObj([choices |-> None]),
      JObj([choices |-> JList(<< JObj(EmptyMap) >>)]),
      JObj([choices |-> JList(<< JStr("x") >>)]),
      JObj([choices |-> JList(<< JObj([message |-> None]) >>)]),
      JObj([choices |-> JList(<< JObj([message |-> JObj(EmptyMap)]) >>)]),
      Completion(None),
      Completion(JNum),
      Completion(JStr("")),
      Completion(JStr("a")) }

\* Bodies the chat room's curl can leave on stdout.
SinkBodies ==
    { NotJson,
      JNum,
      JStr("event_id"),
      JObj([event_id |-> JStr("$ev")]),
      JObj([errcode |-> JStr("M_FORBIDDEN"), error |-> JStr("denied")]) }

ConfigKeys == {"homeserver", "access_token", "room_id"}

\* What load_config can find at the credentials path.
ConfigFiles ==
    { [t |-> "absent"], NotJson,
      JObj([key \in ConfigKeys |-> JStr(key)]),
      JObj([key \in ConfigKeys \ {"access_token"} |-> JStr(key)]) }

(* ----------------------------- functions ------------------------------- *)

\* query_lm_studio, from the curl's stdout on: the value returned or the
\* exception that escapes.
query_lm_studio(stdout) ==
    LET data == json_loads(stdout) IN
    IF data.k = "raise" THEN Ok(None)
    ELSE LET choices == GetItem(data.v, "choices") IN
    IF choices.k = "raise"
    THEN (IF choices.e = "KeyError" THEN Ok(None) ELSE choices)
    ELSE LET first == GetFirst(choices.v) IN
    IF first.k = "raise"
    THEN (IF first.e = "KeyError" THEN Ok(None) ELSE first)
    ELSE LET message == GetItem(first.v, "message") IN
    IF message.k = "raise"
    THEN (IF message.e = "KeyError" THEN Ok(None) ELSE message)
    ELSE LET content == GetItem(message.v, "content") IN
    IF content.k = "raise"
    THEN (IF content.e = "KeyError" THEN Ok(None) ELSE content)
    ELSE content

\* Lines 191-194: the question joins the conversation.
AppendUser(history, q) ==
    Append(history, [role |-> "user", content |-> JStr(q.question)])

\* A turn that loses the model's answer instead of keeping it.
AppendAssistant_Dropped(history, response) == history

\* Lines 206-209: the response joins the conversation.
AppendAssistant(history, response) ==
    Append(history, [role |-> "assistant", content |-> response])

\* A request that carries the latest prompt alone.
Payload_LatestOnly(messages, m) ==
    [model |-> m, messages |-> <<SystemMessage, messages[Len(messages)]>>,
     temperature |-> DefaultTemperature, max_tokens |-> DefaultMaxTokens]

\* The request payload query_lm_studio builds.
Payload(messages, m) ==
    [model |-> m, messages |-> messages,
     temperature |-> DefaultTemperature, max_tokens |-> DefaultMaxTokens]

\* str.replace(old, new) on a character sequence, for one-character old/new.
Replace(s, old, new) == [i \in DOMAIN s |-> IF s[i] = old THEN new ELSE s[i]]

\* A slug that forgets the underscores.
model_slug_SlashesOnly(m) == Replace(m, "/", "-")

\* model.replace('/', '-').replace('_', '-')
model_slug(m) == Replace(Replace(m, "/", "-"), "_", "-")

RECURSIVE SumTimes(_)
SumTimes(data) ==
    IF data = <<>> THEN 0
    ELSE data[1].response_time + SumTimes(Tail(data))

\* generate_markdown_report: the fields the transcript is rendered from.
generate_markdown_report(m, data, start, end) ==
    [title |-> m,
     date |-> start,
     minutes |-> (end - start) \div 60,
     seconds |-> (end - start) % 60,
     sections |-> data,
     completed |-> end,
     total |-> SumTimes(data),
     count |-> Len(data)]

\* post_to_matrix, from the curl's stdout on.
post_to_matrix(stdout) ==
    LET parsed == json_loads(stdout) IN
    IF parsed.k = "raise" THEN JObj([error |-> JStr("raw stdout")]) ELSE parsed.v

(* ------------------------------- state --------------------------------- *)

VARIABLES
    pc,                   \* where the process is
    clock,                \* the wall clock (environment)
    sys_argv,             \* sys.argv
    model,                \* main's / conduct_interview's model
    start_time,           \* conduct_interview's start_time
    end_time,             \* conduct_interview's end_time
    interview_data,       \* conduct_interview's interview_data
    conversation_history, \* conduct_interview's conversation_history
    qi,                   \* index of the loop's current question q
    q_start,              \* conduct_interview's q_start
    requests,             \* payloads sent to the inference endpoint, in order
    result,               \* main's result
    files,                \* files written, in order
    config,               \* main's config
    posts,                \* messages sent to the chat room, in order
    matrix_response,      \* main's matrix_response
    log,                  \* the error lines printed
    exception,            \* the uncaught exception, once one has escaped
    exit_code,            \* the process's exit status, once exited
    \* bin/lib/matrix_client.py
    sys_bound,            \* the module's global name sys is bound
    cpc,                  \* where a call into the library is
    call,                 \* the call under way
    sent,                 \* payloads the library sent to the chat room, in order
    outcomes,             \* the calls completed, each with how it ended
    \* the report's name
    slug_input,           \* a model identifier
    slug_once,            \* its slug
    slug_twice,           \* the slug's slug
    slug_file             \* the report path save_interview derives

interview_vars ==
    <<pc, clock, sys_argv, model, start_time, end_time, interview_data,
      conversation_history, qi, q_start, requests, result,
      files, config, posts, matrix_response, log, exception, exit_code>>

client_vars == <<sys_bound, cpc, call, sent, outcomes>>

slug_vars == <<slug_input, slug_once, slug_twice, slug_file>>

vars == <<interview_vars, client_vars, slug_vars>>

\* A name not bound to a value yet.
Unset == [t |-> "unset"]

\* The same for the names that hold times, and for the exit status.
NoTime == -1

StillRunning == -1

NoException == [type |-> "none", where |-> "none"]

\* No call into the library is under way and none was made.
NoCall == [op |-> "none"]

ClientAtRest ==
    /\ cpc = "idle"
    /\ call = NoCall
    /\ sent = <<>>
    /\ outcomes = <<>>

\* No slug has been computed.
NoSlug == <<"unset">>

SlugAtRest ==
    /\ slug_once = NoSlug
    /\ slug_twice = NoSlug
    /\ slug_file = NoSlug

\* The interview script's process at its start.
InterviewInit ==
    /\ pc = "main"
    /\ clock \in 0..MaxClock
    /\ sys_argv \in ArgVectors
    /\ model = <<>>
    /\ start_time = NoTime
    /\ end_time = NoTime
    /\ interview_data = <<>>
    /\ conversation_history = <<>>
    /\ qi = 0
    /\ q_start = NoTime
    /\ requests = <<>>
    /\ result = Unset
    /\ files = <<>>
    /\ config = Unset
    /\ posts = <<>>
    /\ matrix_response = Unset
    /\ log = <<>>
    /\ exception = NoException
    /\ exit_code = StillRunning

Init ==
    /\ sys_bound = FALSE
    /\ ClientAtRest
    /\ slug_input = <<>>
    /\ SlugAtRest
    /\ InterviewInit

(* --------------------------- environment ------------------------------- *)

\* The process can still read the clock: its last read is line 223.
ClockObserved == pc \in {"main", "loop", "query"}

\* Time passes.
Tick ==
    /\ ClockObserved
    /\ clock < MaxClock
    /\ clock' = clock + 1
    /\ UNCHANGED <<client_vars, slug_vars>>
    /\ UNCHANGED <<pc, sys_argv, model, start_time, end_time, interview_data,
                   conversation_history, qi, q_start, requests,
                   result, files, config, posts, matrix_response, log,
                   exception, exit_code>>

\* The wall clock is set back (time.time() and datetime.now() read the
\* system's real-time clock, which an operator or a time daemon may step).
ClockSetBack ==
    /\ ClockObserved
    /\ \E t \in 0..MaxClock :
          /\ t < clock
          /\ clock' = t
    /\ UNCHANGED <<client_vars, slug_vars>>
    /\ UNCHANGED <<pc, sys_argv, model, start_time, end_time, interview_data,
                   conversation_history, qi, q_start, requests,
                   result, files, config, posts, matrix_response, log,
                   exception, exit_code>>

(* ------------------------------ program -------------------------------- *)

\* An exception nobody catches: the interpreter prints it and exits with 1.
\* "where" is the function whose frame raised it.
Uncaught(e, where) ==
    /\ pc' = "exited"
    /\ exception' = [type |-> e, where |-> where]
    /\ exit_code' = 1

\* main, lines 251-254: no model argument.
Usage ==
    /\ pc = "main"
    /\ Len(sys_argv) < 2
    /\ pc' = "exited"
    /\ exit_code' = 1
    /\ UNCHANGED <<client_vars, slug_vars>>
    /\ UNCHANGED <<clock, sys_argv, model, start_time, end_time, interview_data,
                   conversation_history, qi, q_start, requests,
                   result, files, config, posts, matrix_response, log,
                   exception>>

\* main, lines 256-264, and conduct_interview up to its loop (lines 172-184).
StartInterview ==
    /\ pc = "main"
    /\ Len(sys_argv) >= 2
    /\ model' = sys_argv[2]
    /\ start_time' = clock
    /\ interview_data' = <<>>
    /\ conversation_history' = <<SystemMessage>>
    /\ qi' = 1
    /\ pc' = "loop"
    /\ UNCHANGED <<client_vars, slug_vars>>
    /\ UNCHANGED <<clock, sys_argv, end_time, q_start, requests,
                   result, files, config, posts, matrix_response, log,
                   exception, exit_code>>

\* The loop body up to the blocking curl: lines 187-198 and 78-90.
Dispatch ==
    /\ pc = "loop"
    /\ LET q == INTERVIEW_QUESTIONS[qi]
           history == AppendUser(conversation_history, q)
       IN /\ conversation_history' = history
          /\ q_start' = clock
          /\ requests' = Append(requests, Payload(history, model))
    /\ pc' = "query"
    /\ UNCHANGED <<client_vars, slug_vars>>
    /\ UNCHANGED <<clock, sys_argv, model, start_time, end_time, interview_data,
                   qi, result, files, config, posts,
                   matrix_response, log, exception, exit_code>>

\* An exception other than JSONDecodeError/KeyError leaves query_lm_studio
\* and, uncaught in conduct_interview and main, ends the process.
QueryRaises(e) ==
    /\ Uncaught(e, "query_lm_studio")
    /\ UNCHANGED <<client_vars, slug_vars>>
    /\ UNCHANGED <<clock, sys_argv, model, start_time, end_time, interview_data,
                   conversation_history, qi, q_start, requests,
                   result, files, config, posts, matrix_response, log>>

\* A failed turn whose error line names the last answered question.
TurnFails_WrongOrdinal ==
    /\ log' = Append(log, [line |-> "ERROR: Failed to get response for Q",
                           number |-> Len(interview_data)])
    /\ result' = None
    /\ pc' = "returned"
    /\ UNCHANGED <<client_vars, slug_vars>>
    /\ UNCHANGED <<clock, sys_argv, model, start_time, end_time, interview_data,
                   conversation_history, qi, q_start, requests, files, config,
                   posts, matrix_response, exception, exit_code>>

\* A failed turn that asks the same question once more instead of returning.
TurnFails_Retry ==
    /\ log' = Append(log, [line |-> "ERROR: Failed to get response for Q",
                           number |-> INTERVIEW_QUESTIONS[qi].number])
    /\ pc' = IF Len(log) < 1 THEN "loop" ELSE "returned"
    /\ result' = IF Len(log) < 1 THEN result ELSE None
    /\ UNCHANGED <<client_vars, slug_vars>>
    /\ UNCHANGED <<clock, sys_argv, model, start_time, end_time, interview_data,
                   conversation_history, qi, q_start, requests, files, config,
                   posts, matrix_response, exception, exit_code>>

\* A failed turn that takes its question back out of the conversation.
TurnFails_Rollback ==
    /\ log' = Append(log, [line |-> "ERROR: Failed to get response for Q",
                           number |-> INTERVIEW_QUESTIONS[qi].number])
    /\ conversation_history' =
           SubSeq(conversation_history, 1, Len(conversation_history) - 1)
    /\ result' = None
    /\ pc' = "returned"
    /\ UNCHANGED <<client_vars, slug_vars>>
    /\ UNCHANGED <<clock, sys_argv, model, start_time, end_time, interview_data,
                   qi, q_start, requests, files, config,
                   posts, matrix_response, exception, exit_code>>

\* Lines 199-203: query_lm_studio returned None; conduct_interview returns
\* None, which main (line 264) receives as result.
TurnFails ==
    /\ log' = Append(log, [line |-> "ERROR: Failed to get response for Q",
                           number |-> INTERVIEW_QUESTIONS[qi].number])
    /\ result' = None
    /\ pc' = "returned"
    /\ UNCHANGED <<client_vars, slug_vars>>
    /\ UNCHANGED <<clock, sys_argv, model, start_time, end_time, interview_data,
                   conversation_history, qi, q_start, requests, files, config,
                   posts, matrix_response, exception, exit_code>>

\* Lines 199-221 with a response, then the next iteration or lines 223-234.
TurnSucceeds(response) ==
    LET q == INTERVIEW_QUESTIONS[qi]
        history == AppendAssistant(conversation_history, response)
        data == Append(interview_data,
                       [number |-> q.number, section |-> q.section,
                        question |-> q.question, response |-> response,
                        response_time |-> clock - q_start])
    IN
    /\ conversation_history' = history
    /\ interview_data' = data
    /\ IF ~Sliceable(response)
       THEN /\ Uncaught("TypeError", "conduct_interview")
            /\ UNCHANGED <<qi, end_time, result>>
       ELSE IF qi < Len(INTERVIEW_QUESTIONS)
       THEN /\ qi' = qi + 1
            /\ pc' = "loop"
            /\ UNCHANGED <<end_time, result, exception, exit_code>>
       ELSE /\ end_time' = clock
            /\ result' = [model |-> model,
                          markdown |-> generate_markdown_report(
                                           model, data, start_time, clock),
                          start_time |-> start_time,
                          end_time |-> clock,
                          interview_data |-> data]
            /\ pc' = "returned"
            /\ UNCHANGED <<qi, exception, exit_code>>
    /\ UNCHANGED <<client_vars, slug_vars>>
    /\ UNCHANGED <<clock, sys_argv, model, start_time, q_start, requests,
                   files, config, posts, matrix_response, log>>

\* The endpoint's curl finishes, leaving stdout; lines 92-98 and the rest of
\* the loop body follow.  Nothing bounds how long the curl may run.
QueryReturns ==
    /\ pc = "query"
    /\ \E stdout \in ResponseBodies :
          LET r == query_lm_studio(stdout) IN
          IF r.k = "raise" THEN QueryRaises(r.e)
          ELSE IF r.v = None THEN TurnFails
          ELSE TurnSucceeds(r.v)

\* A main that keeps what was gathered before the failure.
MainAbort_SavesPartial ==
    /\ pc = "returned"
    /\ result = None
    /\ log' = Append(log, [line |-> "Interview failed", number |-> 0])
    /\ files' = Append(files, [path |-> <<"partial">>, content |-> interview_data])
    /\ pc' = "exited"
    /\ exit_code' = 1
    /\ UNCHANGED <<client_vars, slug_vars>>
    /\ UNCHANGED <<clock, sys_argv, model, start_time, end_time, interview_data,
                   conversation_history, qi, q_start, requests,
                   result, config, posts, matrix_response, exception>>

\* main, lines 266-268.
MainAbort ==
    /\ pc = "returned"
    /\ result = None
    /\ log' = Append(log, [line |-> "Interview failed", number |-> 0])
    /\ pc' = "exited"
    /\ exit_code' = 1
    /\ UNCHANGED <<client_vars, slug_vars>>
    /\ UNCHANGED <<clock, sys_argv, model, start_time, end_time, interview_data,
                   conversation_history, qi, q_start, requests,
                   result, files, config, posts, matrix_response, exception>>

\* The path save_interview writes to.
OutputFile(r) == <<"comparative-study-2025-11", "interview-", model_slug(r.model), ".md">>

\* main, line 271: save_interview (lines 236-248); mkdir or open may fail.
SaveInterview ==
    /\ pc = "returned"
    /\ result # None
    /\ \E disk_ok \in BOOLEAN :
          IF disk_ok
          THEN /\ files' = Append(files, [path |-> OutputFile(result),
                                          content |-> result.markdown])
               /\ pc' = "saved"
               /\ UNCHANGED <<exception, exit_code>>
          ELSE /\ Uncaught("OSError", "save_interview")
               /\ UNCHANGED files
    /\ UNCHANGED <<client_vars, slug_vars>>
    /\ UNCHANGED <<clock, sys_argv, model, start_time, end_time, interview_data,
                   conversation_history, qi, q_start, requests,
                   result, config, posts, matrix_response, log>>

\* The summary main composes (lines 277-293).
MatrixMessage(r, output_file) ==
    [model |-> r.model,
     minutes |-> (r.end_time - r.start_time) \div 60,
     seconds |-> (r.end_time - r.start_time) % 60,
     total |-> SumTimes(r.interview_data),
     count |-> Len(r.interview_data),
     saved |-> output_file]

\* main, lines 274-295 up to the blocking curl of post_to_matrix
\* (lines 102-108): load_config, the summary, the curl's arguments.
PostDispatch ==
    /\ pc = "saved"
    /\ \E file \in ConfigFiles :
          IF file.t = "absent"
          THEN /\ Uncaught("FileNotFoundError", "load_config")
               /\ UNCHANGED <<config, posts>>
          ELSE IF json_loads(file).k = "raise"
          THEN /\ Uncaught("JSONDecodeError", "load_config")
               /\ UNCHANGED <<config, posts>>
          ELSE /\ config' = file
               /\ IF \E key \in ConfigKeys : GetItem(file, key).k = "raise"
                  THEN /\ Uncaught("KeyError", "post_to_matrix")
                       /\ UNCHANGED posts
                  ELSE /\ posts' = Append(posts,
                                      [msgtype |-> "m.text",
                                       body |-> MatrixMessage(result, OutputFile(result))])
                       /\ pc' = "post"
                       /\ UNCHANGED <<exception, exit_code>>
    /\ UNCHANGED <<client_vars, slug_vars>>
    /\ UNCHANGED <<clock, sys_argv, model, start_time, end_time, interview_data,
                   conversation_history, qi, q_start, requests,
                   result, files, matrix_response, log>>

\* The chat room's curl finishes; lines 110-113 and main's lines 295-307.
\* Nothing bounds how long the curl may run.
PostReturns ==
    /\ pc = "post"
    /\ \E stdout \in SinkBodies :
          LET response == post_to_matrix(stdout)
              accepted == Contains_event_id(response)
          IN /\ matrix_response' = response
             /\ IF accepted.k = "raise"
                THEN /\ Uncaught(accepted.e, "main")
                     /\ UNCHANGED log
                ELSE IF accepted.v /\ GetItem(response, "event_id").k = "raise"
                THEN /\ Uncaught(GetItem(response, "event_id").e, "main")
                     /\ UNCHANGED log
                ELSE /\ pc' = "exited"
                     /\ exit_code' = 0
                     /\ log' = IF accepted.v THEN log
                               ELSE Append(log, [line |-> "Matrix post issue",
                                                 number |-> 0])
                     /\ UNCHANGED exception
    /\ UNCHANGED <<client_vars, slug_vars>>
    /\ UNCHANGED <<clock, sys_argv, model, start_time, end_time, interview_data,
                   conversation_history, qi, q_start, requests,
                   result, files, config, posts>>

\* The steps the process takes by itself, without waiting for anyone.
ProgramStep ==
    Usage \/ StartInterview \/ Dispatch \/ MainAbort \/ SaveInterview \/ PostDispatch

Next ==
    \/ Tick
    \/ ClockSetBack
    \/ Usage
    \/ StartInterview
    \/ Dispatch
    \/ QueryReturns
    \/ MainAbort
    \/ SaveInterview
    \/ PostDispatch
    \/ PostReturns

Spec == Init /\ [][Next]_vars

\* The interpreter runs the process's own steps; the two curls end only when
\* their servers answer.
FairSpec == Spec /\ WF_vars(ProgramStep)

(* ----------------------- bin/lib/matrix_client.py ---------------------- *)

\* Calls into the library explored in one run.
MaxCalls == 2

JBool(b) == [t |-> "bool", b |-> b]

\* Python's truth value of v.
Truthy(v) ==
    CASE v.t = "null" -> FALSE
      [] v.t = "str"  -> v.s # ""
      [] v.t = "list" -> v.items # <<>>
      [] v.t = "obj"  -> DOMAIN v.f # {}
      [] v.t = "bool" -> v.b
      [] OTHER        -> TRUE

\* Python's v.get(key).
DictGet(v, key) ==
    IF v.t = "obj"
    THEN Ok(IF key \in DOMAIN v.f THEN v.f[key] ELSE None)
    ELSE Raise("AttributeError")

\* Message texts a caller passes, as sequences of words; <<>> is "".
Messages == { <<>>, <<"done">> }

EventTypes ==
    {"SessionStart", "SessionEnd", "Stop", "SubagentStop", "Notification",
     "Error", "Deploy"}

\* The instance name of the configuration, by default.
InstanceName == "AI Instance"

\* format_event_message's emoji_map, with its default.
Emoji(event_type) ==
    CASE event_type = "SessionStart" -> "rocket"
      [] event_type = "SessionEnd"   -> "wave"
      [] event_type = "Stop"         -> "check"
      [] event_type = "SubagentStop" -> "robot"
      [] event_type = "Notification" -> "loudspeaker"
      [] event_type = "Error"        -> "cross"
      [] event_type = "Info"         -> "info"
      [] event_type = "Success"      -> "check"
      [] event_type = "Warning"      -> "warning"
      [] event_type = "Research"     -> "microscope"
      [] event_type = "Interview"    -> "thought"
      [] event_type = "Debug"        -> "bug"
      [] OTHER                       -> "info"

\* MatrixClient.format_event_message
format_event_message(event_type, message) ==
    LET tag == <<"[", InstanceName, "]">>
        msg ==
          CASE event_type = "SessionStart" -> tag \o <<"Session started">>
            [] event_type = "SessionEnd"   -> tag \o <<"Session ended">>
            [] event_type = "Stop" ->
                 tag \o <<"Task completed">>
                     \o (IF message # <<>> THEN <<":">> \o message ELSE <<>>)
            [] event_type = "SubagentStop" ->
                 tag \o <<"Agent task completed">>
                     \o (IF message # <<>> THEN <<":">> \o message ELSE <<>>)
            [] event_type \in {"Notification", "Info", "Success", "Research",
                               "Interview"} ->
                 tag \o message
            [] OTHER -> tag \o <<event_type, ":">> \o message
    IN <<Emoji(event_type)>> \o msg

\* print(..., file=sys.stderr) followed by "return value": the name sys is
\* looked up when the line runs.
Stderr(value) == IF sys_bound THEN Ok(value) ELSE Raise("NameError")

\* send_message, lines 122-150, from the curl's stdout on.  An exception of
\* the try body goes to the handler of lines 148-150; one raised inside a
\* handler leaves send_message.
SendMessageReply(stdout) ==
    LET parsed == json_loads(stdout) IN
    IF parsed.k = "raise" THEN Stderr(None)
    ELSE LET event_id == DictGet(parsed.v, "event_id") IN
    IF event_id.k = "raise" THEN Stderr(None)
    ELSE IF Truthy(event_id.v) THEN Ok(event_id.v)
    ELSE Stderr(None)

\* send_notification, lines 278-284, around the client's outcome.
Notify(res) ==
    IF res.k = "ok" THEN Ok(JBool(res.v # None)) ELSE Stderr(JBool(FALSE))

\* What the called function hands its caller.
Finish(op, res) == IF op = "send_notification" THEN Notify(res) ELSE res

\* Bodies the chat room's curl can leave on stdout for the library.
ClientSinkBodies ==
    SinkBodies \cup { JObj(EmptyMap), JObj([event_id |-> None]),
                      JObj([event_id |-> JStr("")]), JList(<<>>) }

\* A call ends.
Complete(op, body, reply, res) ==
    /\ outcomes' = Append(outcomes, [op |-> op, body |-> body, reply |-> reply,
                                     res |-> Finish(op, res)])
    /\ cpc' = "idle"
    /\ call' = NoCall

\* send_message(body), lines 98-121, up to the blocking curl; subprocess.run
\* raises when curl cannot be started.
Launch(op, body) ==
    IF body = <<>>
    THEN /\ Complete(op, body, [t |-> "notsent"], Stderr(None))
         /\ UNCHANGED sent
    ELSE \E curl_starts \in BOOLEAN :
            IF curl_starts
            THEN /\ sent' = Append(sent, [msgtype |-> "m.text", body |-> body])
                 /\ cpc' = "curl"
                 /\ call' = [op |-> op, body |-> body]
                 /\ UNCHANGED outcomes
            ELSE /\ Complete(op, body, [t |-> "nocurl"], Stderr(None))
                 /\ UNCHANGED sent

\* The module was imported: its callers may call while MaxCalls allows.
\* Run as a script, it makes the one send_event call of line 314.
MayCall ==
    /\ cpc = "idle"
    /\ Len(outcomes) < (IF sys_bound THEN 1 ELSE MaxCalls)

\* client.send_message(message)
CallSendMessage ==
    /\ MayCall
    /\ ~sys_bound
    /\ \E message \in Messages : Launch("send_message", message)
    /\ UNCHANGED <<sys_bound, interview_vars, slug_vars>>

\* client.send_event(event_type, message), lines 213-214.
CallSendEvent ==
    /\ MayCall
    /\ \E event_type \in EventTypes, message \in Messages :
          Launch("send_event", format_event_message(event_type, message))
    /\ UNCHANGED <<sys_bound, interview_vars, slug_vars>>

\* send_notification(event_type, message), lines 278-280: MatrixClient()
\* reads the credentials file (lines 59-64), then send_event.
CallSendNotification ==
    /\ MayCall
    /\ ~sys_bound
    /\ \E file \in ConfigFiles, event_type \in EventTypes, message \in Messages :
          LET body == format_event_message(event_type, message) IN
          IF file.t = "absent"
          THEN /\ Complete("send_notification", body, [t |-> "noclient"],
                           Raise("FileNotFoundError"))
               /\ UNCHANGED sent
          ELSE IF json_loads(file).k = "raise"
          THEN /\ Complete("send_notification", body, [t |-> "noclient"],
                           Raise("JSONDecodeError"))
               /\ UNCHANGED sent
          ELSE IF \E key \in ConfigKeys : GetItem(file, key).k = "raise"
          THEN /\ Complete("send_notification", body, [t |-> "noclient"],
                           Raise("KeyError"))
               /\ UNCHANGED sent
          ELSE Launch("send_notification", body)
    /\ UNCHANGED <<sys_bound, interview_vars, slug_vars>>

\* The curl ends within its 10 seconds, leaving stdout; lines 122-150.
CurlReplies ==
    /\ cpc = "curl"
    /\ \E stdout \in ClientSinkBodies :
          Complete(call.op, call.body, stdout, SendMessageReply(stdout))
    /\ UNCHANGED <<sys_bound, sent, interview_vars, slug_vars>>

\* subprocess.run gives up after timeout=10; lines 142-144.
CurlTimesOut ==
    /\ cpc = "curl"
    /\ Complete(call.op, call.body, [t |-> "timeout"], Stderr(None))
    /\ UNCHANGED <<sys_bound, sent, interview_vars, slug_vars>>

\* The library imported by a caller (sys unbound), or run as a script
\* (line 289 binds sys).
ClientInit ==
    /\ sys_bound \in BOOLEAN
    /\ ClientAtRest
    /\ slug_input = <<>>
    /\ SlugAtRest
    /\ InterviewInit
    /\ clock = 0
    /\ sys_argv = <<"script">>

ClientNext ==
    \/ CallSendMessage
    \/ CallSendEvent
    \/ CallSendNotification
    \/ CurlReplies
    \/ CurlTimesOut

ClientSpec == ClientInit /\ [][ClientNext]_vars

(* --------------------------- the report's name ------------------------- *)

\* Longest model identifier explored.
MaxSlugLen == 3

\* Characters of model identifiers: the two the slug replaces, the one it
\* replaces them by, and another.
SlugAlphabet == {"/", "_", "-", "a"}

ModelIdentifiers == UNION { [1..n -> SlugAlphabet] : n \in 0..MaxSlugLen }

\* Line 238 applied to the identifier.
Slugify ==
    /\ slug_once = NoSlug
    /\ slug_once' = model_slug(slug_input)
    /\ UNCHANGED <<slug_input, slug_twice, slug_file, interview_vars, client_vars>>

\* Line 238 applied to what it gave.
SlugifyAgain ==
    /\ slug_once # NoSlug
    /\ slug_twice = NoSlug
    /\ slug_twice' = model_slug(slug_once)
    /\ UNCHANGED <<slug_input, slug_once, slug_file, interview_vars, client_vars>>

\* Lines 238-242: the path save_interview writes a result of this model to.
DerivePath ==
    /\ Len(slug_file) = 1
    /\ slug_file' = OutputFile([model |-> slug_input])
    /\ UNCHANGED <<slug_input, slug_once, slug_twice, interview_vars, client_vars>>

SlugInit ==
    /\ slug_input \in ModelIdentifiers
    /\ SlugAtRest
    /\ sys_bound = FALSE
    /\ ClientAtRest
    /\ InterviewInit
    /\ clock = 0
    /\ sys_argv = <<"script">>

SlugNext == Slugify \/ SlugifyAgain \/ DerivePath

SlugSpec == SlugInit /\ [][SlugNext]_vars

(* ------------------------------ properties ----------------------------- *)

\* conduct_interview has handed main a session result.
SessionSucceeded == result # Unset /\ result # None

\* conduct_interview gave up on a turn: query_lm_studio returned None for the
\* question at qi, and main received None.
SessionAborted == result = None

\* The ordinal of the question the session gave up on.
FailedOrdinal == INTERVIEW_QUESTIONS[qi].number

\* The ordinal of the question a request asks: that of its last message.
RequestOrdinal(request) ==
    LET last == request.messages[Len(request.messages)]
    IN IF last.role = "user" /\ \E i \in 1..NumQuestions : JStr(QuestionText[i]) = last.content
       THEN CHOOSE i \in 1..NumQuestions : JStr(QuestionText[i]) = last.content
       ELSE 0

\* C1: whenever conduct_interview completes with every turn succeeding, the
\* result holds exactly one turn record per question, the i-th carrying
\* ordinal i, and every recorded latency is at least 0.
C1_SuccessfulResult ==
    SessionSucceeded =>
        /\ Len(result.interview_data) = Len(INTERVIEW_QUESTIONS)
        /\ \A i \in 1..Len(result.interview_data) :
              /\ result.interview_data[i].number = INTERVIEW_QUESTIONS[i].number
              /\ result.interview_data[i].response_time >= 0

\* The part of C1 about the records' count and order alone.
ResultRecordsInOrder ==
    SessionSucceeded =>
        /\ Len(result.interview_data) = Len(INTERVIEW_QUESTIONS)
        /\ \A i \in 1..Len(result.interview_data) :
              result.interview_data[i].number = INTERVIEW_QUESTIONS[i].number

C3_NoReportNoPostOnAbort ==
    /\ SessionAborted => (files = <<>> /\ posts = <<>>)
    /\ (files # <<>> \/ posts # <<>>) =>
          /\ SessionSucceeded
          /\ Len(interview_data) = Len(INTERVIEW_QUESTIONS)

C3_Witness ==
    /\ SessionAborted
    /\ pc = "exited"
    /\ exit_code = 1
    /\ Len(interview_data) >= 1

\* C4: the j-th request of a session asks question j, so each question is
\* dispatched at most once and in increasing order, and the request of a failed
\* turn is the last one: once turn k has failed there are just k requests.
C4_DispatchOnceInOrder ==
    /\ Len(requests) <= Len(INTERVIEW_QUESTIONS)
    /\ \A j \in 1..Len(requests) : RequestOrdinal(requests[j]) = j
    /\ SessionAborted => Len(requests) = FailedOrdinal
    /\ (\E j \in 1..Len(log) : log[j].line = "ERROR: Failed to get response for Q")
          => pc \in {"returned", "exited"}

C4_Witness ==
    /\ SessionAborted
    /\ pc = "exited"
    /\ Len(requests) = 2
    /\ Len(INTERVIEW_QUESTIONS) > 2

\* The configuration could not be loaded.
ConfigurationMissing ==
    \/ exception.where = "load_config"
    \/ exception = [type |-> "KeyError", where |-> "post_to_matrix"]

\* C5: in a run where the configuration cannot be loaded, no question has been
\* dispatched and no report written when the process fails.
C5_ConfigFatalBeforeSession ==
    ConfigurationMissing => (requests = <<>> /\ files = <<>>)

\* The chat room accepted the summary.
NotificationAccepted ==
    /\ matrix_response # Unset
    /\ matrix_response.t = "obj"
    /\ "event_id" \in DOMAIN matrix_response.f

\* C6: the process exits with 0 only when every turn was answered, the report
\* was saved and the chat room accepted the summary.
C6_ExitZeroOnlyOnFullSuccess ==
    (pc = "exited" /\ exit_code = 0) =>
        /\ SessionSucceeded
        /\ files # <<>>
        /\ NotificationAccepted

\* C7: every run terminates, whether or not the endpoint and the chat room
\* ever answer.
C7_Terminates == <>(pc = "exited")

\* C8: a response without a textual completion never makes an exception
\* escape the driver or the turn, and never counts as an answer: every answer
\* kept in the conversation and in the turn records is text.
C8_MalformedResponseAborts ==
    /\ exception.where \notin {"query_lm_studio", "conduct_interview"}
    /\ \A i \in 1..Len(conversation_history) :
          conversation_history[i].role = "assistant"
             => conversation_history[i].content.t = "str"
    /\ \A i \in 1..Len(interview_data) : interview_data[i].response.t = "str"

\* The conversation after i answered turns, given the turn records.
WellFormedHistory(history, data, i) ==
    /\ Len(history) >= 1 + 2 * i
    /\ history[1] = SystemMessage
    /\ \A j \in 1..i :
          /\ history[2 * j] =
                [role |-> "user", content |-> JStr(INTERVIEW_QUESTIONS[j].question)]
          /\ history[2 * j + 1] =
                [role |-> "assistant", content |-> data[j].response]

\* No turn is under way and none has failed: i turns have just completed.
BetweenTurns == pc = "loop" \/ SessionSucceeded

\* C9: the conversation only grows by appending, and after i successful turns
\* it is the system message followed by i user/assistant pairs, the j-th pair
\* holding question j and its response: 1 + 2*i messages.
C9_HistoryAppendOnly ==
    /\ [](BetweenTurns =>
            LET i == Len(interview_data) IN
            /\ i = IF pc = "loop" THEN qi - 1 ELSE Len(INTERVIEW_QUESTIONS)
            /\ Len(conversation_history) = 1 + 2 * i
            /\ WellFormedHistory(conversation_history, interview_data, i))
    /\ [][/\ Len(conversation_history') >= Len(conversation_history)
          /\ SubSeq(conversation_history', 1, Len(conversation_history))
                = conversation_history]_vars

C9_Witness ==
    /\ SessionSucceeded
    /\ Len(conversation_history) = 1 + 2 * NumQuestions
    /\ \E i \in 1..Len(interview_data) : interview_data[i].response = JStr("a")

\* C10: when turn k fails, the conversation keeps question k as its last
\* message, a user message, with no answer after it: 1 + 2*(k-1) + 1 messages,
\* and there is no turn record for ordinal k.
C10_FailedTurnLeavesUserMessage ==
    SessionAborted =>
        LET k == FailedOrdinal IN
        /\ Len(conversation_history) = 1 + 2 * (k - 1) + 1
        /\ conversation_history[Len(conversation_history)] =
              [role |-> "user", content |-> JStr(INTERVIEW_QUESTIONS[k].question)]
        /\ WellFormedHistory(conversation_history, interview_data, k - 1)
        /\ \A i \in 1..Len(interview_data) : interview_data[i].number # k

C10_Witness ==
    /\ SessionAborted
    /\ pc = "returned"
    /\ FailedOrdinal = 2
    /\ Len(conversation_history) = 4

\* The chat room accepted the message of a call: its reply has an event ID.
SinkAccepted(reply) ==
    /\ reply.t = "obj"
    /\ "event_id" \in DOMAIN reply.f
    /\ Truthy(reply.f["event_id"])

\* The calls that got as far as sending.
SentCalls ==
    {i \in 1..Len(outcomes) : outcomes[i].reply.t \notin {"notsent", "nocurl", "noclient"}}

\* C11: send_message, send_event and send_notification never raise: a call
\* returns the event ID (send_notification: True) when the chat room accepted
\* the message and None (False) otherwise, and an empty body is not sent.
C11_SendReportsFailureAsValue ==
    /\ \A i \in 1..Len(outcomes) :
          LET o == outcomes[i] IN
          /\ o.res.k = "ok"
          /\ o.res.v =
               IF o.op = "send_notification" THEN JBool(SinkAccepted(o.reply))
               ELSE IF SinkAccepted(o.reply) THEN o.reply.f["event_id"]
               ELSE None
          /\ o.body = <<>> => o.reply.t = "notsent"
    /\ Len(sent) = Cardinality(SentCalls) + (IF cpc = "curl" THEN 1 ELSE 0)

\* The same, for the one case the library handles as documented: the chat
\* room accepted the message.
AcceptedCallsReturnEventId ==
    \A i \in 1..Len(outcomes) :
        LET o == outcomes[i] IN
        SinkAccepted(o.reply) =>
            /\ o.res.k = "ok"
            /\ o.res.v = IF o.op = "send_notification" THEN JBool(TRUE)
                         ELSE o.reply.f["event_id"]

\* C12: the slug of a model identifier holds no '/' and no '_', the slug of
\* a slug is that slug, and the report's path is the fixed directory and the
\* file name made of "interview-", the slug and ".md".
C12_SlugSafeAndIdempotent ==
    /\ slug_once # NoSlug =>
          \A i \in 1..Len(slug_once) : slug_once[i] \notin {"/", "_"}
    /\ slug_twice # NoSlug => slug_twice = slug_once
    /\ (Len(slug_file) # 1 /\ slug_once # NoSlug) =>
          /\ Len(slug_file) = 4
          /\ slug_file[1] = "comparative-study-2025-11"
          /\ slug_file[2] = "interview-"
          /\ slug_file[3] = slug_once
          /\ slug_file[4] = ".md"

C12_Witness ==
    /\ \E i, j \in 1..Len(slug_input) : slug_input[i] = "/" /\ slug_input[j] = "_"
    /\ slug_once # NoSlug
    /\ slug_once # slug_input
    /\ slug_twice # NoSlug
    /\ Len(slug_file) = 4

\* C13: the i-th request holds the conversation so far, 2*i messages: the
\* system message, the i-1 earlier questions each followed by the response
\* received for it, and question i last; every request names the same model,
\* temperature and token budget.
C13_RequestCarriesFullHistory ==
    \A i \in 1..Len(requests) :
        LET r == requests[i] IN
        /\ Len(r.messages) = 2 * i
        /\ r.messages[1] = SystemMessage
        /\ \A j \in 1..(i - 1) :
              /\ r.messages[2 * j] =
                    [role |-> "user", content |-> JStr(INTERVIEW_QUESTIONS[j].question)]
              /\ r.messages[2 * j + 1] =
                    [role |-> "assistant", content |-> interview_data[j].response]
        /\ r.messages[2 * i] =
              [role |-> "user", content |-> JStr(INTERVIEW_QUESTIONS[i].question)]
        /\ r.model = requests[1].model
        /\ r.model = model
        /\ r.temperature = requests[1].temperature
        /\ r.max_tokens = requests[1].max_tokens

C13_Witness ==
    /\ pc = "query"
    /\ Len(requests) = NumQuestions
    /\ NumQuestions >= 2
    /\ \E j \in 1..Len(interview_data) : interview_data[j].response = JStr("a")
    /\ \E j \in 1..Len(interview_data) : interview_data[j].response = JStr("")

====
